---- MODULE Spec2Model ----
(***************************************************************************)
(* django-brevo-analytics: the webhook ingestion endpoint                  *)
(* (brevo_analytics/webhooks.py) and the cache-first read path             *)
(* (brevo_analytics/supabase.py, brevo_analytics/views.py).                *)
(*                                                                         *)
(* The specifications share the variables; the main three are             *)
(*   Spec      webhooks handled one after the other (each request is one   *)
(*             step, the whole of brevo_webhook);                          *)
(*   SpecConc  webhooks handled by concurrent workers, one step per        *)
(*             database operation of brevo_webhook;                        *)
(*   SpecRead  the dashboard / list / detail queries over the cache.       *)
(* SpecEvents, SpecStatus, SpecStats and SpecKeys run the same actions     *)
(* over other inputs (every provider event name, every set of event kinds, *)
(* every set of delivered and bounced events, URL parameters as typed).    *)
(***************************************************************************)
EXTENDS Integers, Sequences, FiniteSets, TLC

VARIABLES
    secret,        \* settings.BREVO_ANALYTICS['WEBHOOK_SECRET']
    messages,      \* BrevoMessage table: sequence of rows [subject, sent_date]
    emails,        \* BrevoEmail table: sequence of rows, pk = index
    hist,          \* Spec: the requests handled so far, in order
    resps,         \* Spec: the response to each request of hist
    prevEmails,    \* Spec: BrevoEmail table before the last request
    prevMessages,  \* Spec: BrevoMessage table before the last request
    pc,            \* SpecConc: per worker, the position in brevo_webhook
    req,           \* SpecConc: per worker, the request it handles
    loc,           \* SpecConc: per worker, the local `email` (pk, 0 = None)
    wresp,         \* SpecConc: per worker, the response
    creates,       \* SpecConc: per identity pair, BrevoEmail.objects.create calls made
    sbEmails,      \* Supabase table emails: set of rows
    sbEvents,      \* Supabase table email_events: set of rows
    apiUp,         \* whether a request to the Supabase API succeeds now
    now,           \* the clock, in ticks
    cache,         \* django.core.cache: key -> [val, expires]
    qpc,           \* SpecRead: per view call, its position
    qry,           \* SpecRead: per view call, the query
    qval,          \* SpecRead: per view call, the value fetched from the store
    qout,          \* SpecRead: per view call, what the view renders
    qprior,        \* SpecRead: per view call, the value last cached for its key when it began
    qfailed,       \* SpecRead: per view call, whether its request to the store failed
    qexc           \* SpecRead: per view call, the exception raised in the client and the one it let out

storeVars == <<messages, emails>>
seqVars   == <<hist, resps, prevEmails, prevMessages>>
concVars  == <<pc, req, loc, wresp, creates>>
tableVars == <<sbEmails, sbEvents>>
readVars  == <<sbEmails, sbEvents, apiUp, now, cache, qpc, qry, qval, qout, qprior, qfailed, qexc>>
vars      == <<secret, messages, emails, hist, resps, prevEmails, prevMessages,
               pc, req, loc, wresp, creates,
               sbEmails, sbEvents, apiUp, now, cache, qpc, qry, qval, qout, qprior, qfailed, qexc>>

(***************************************************************************)
(* Bounds                                                                  *)
(***************************************************************************)
\* Spec: number of webhooks delivered in one behaviour.
MaxReqs == 3
\* SpecConc: number of concurrent workers, each handling one webhook.
NumWorkers == 3
\* SpecRead: number of concurrent view calls, each making one query.
NumQueries == 2
\* SpecRead: the clock stops after this many ticks.
MaxTime == 3
\* Ticks in a day, and the CACHE_TIMEOUT setting in ticks.
DayTicks == 2
CacheTimeout == 2

(***************************************************************************)
(* Values                                                                  *)
(***************************************************************************)
None   == "<None>"       \* Python None / a key absent from the payload
Absent == "<absent>"     \* a header or JSON key that is not there

\* datetime.date() of a UTC datetime held as unix seconds.
SecondsPerDay == 86400
DateOfLocalTime(dt) == (dt + 3600) \div SecondsPerDay
DateOf(dt) == dt \div SecondsPerDay

\* Two instants on different calendar days, one second apart.
T1 == SecondsPerDay - 1
T2 == SecondsPerDay

\* ts_event as it comes out of json.loads. tag "int" is a number
\* datetime.fromtimestamp converts; "yearrange" a number whose year is beyond
\* 9999 (ValueError/OSError); "overflow" a number beyond time_t (OverflowError);
\* "str" a JSON string (TypeError); "absent" the key is missing.
Ts(tag, v) == [tag |-> tag, v |-> v]
TsAbsent == Ts("absent", 0)

(***************************************************************************)
(* Requests: the HTTP requests the provider (or anyone) may POST           *)
(***************************************************************************)
\* The raw body. json = "malformed": json.loads raises JSONDecodeError;
\* "nonobject": well-formed JSON that is no object (a list, a number);
\* "object": a JSON object with these keys (Absent = key not there).
Body(j, ev, mid, em, subj, ts) ==
    [json |-> j, event |-> ev, mid |-> mid, email |-> em, subject |-> subj, ts |-> ts]

MalformedBody == Body("malformed", Absent, Absent, Absent, Absent, TsAbsent)
NonObjectBody == Body("nonobject", Absent, Absent, Absent, Absent, TsAbsent)

EventNames    == {"request", "delivered", "hard_bounce"}
MessageIds    == {"m1"}
Recipients    == {"a@x", "b@x"}
Subjects      == {"hello"}
Timestamps    == {T1, T2}

ValidBodies ==
    { Body("object", ev, mid, em, subj, Ts("int", t)) :
        ev \in EventNames, mid \in MessageIds, em \in Recipients,
        subj \in Subjects, t \in Timestamps }

\* Bodies the validation of lines 42-65 has to deal with.
InvalidBodies ==
    { MalformedBody, NonObjectBody,
      Body("object", Absent, "m1", "a@x", "hello", Ts("int", T1)),
      Body("object", "request", "m1", "", "hello", Ts("int", T1)),
      Body("object", "request", "m1", "a@x", "hello", TsAbsent),
      Body("object", "request", "m1", "a@x", "hello", Ts("int", 0)),
      Body("object", "request", "m1", "a@x", "hello", Ts("yearrange", 0)),
      Body("object", "request", "m1", "a@x", "hello", Ts("overflow", 0)),
      Body("object", "request", "m1", "a@x", "hello", Ts("str", 0)) }

\* A 'sent' webhook that comes again for an identity, a day later and with
\* another subject.
ResentBody == Body("object", "request", "m1", "a@x", "other", Ts("int", T2))

\* A 'sent' webhook whose payload has no subject key, and one whose event
\* name is already the canonical 'sent'.
NoSubjectBody == Body("object", "request", "m1", "b@x", Absent, Ts("int", T1))
RawSentBody   == Body("object", "sent", "m1", "b@x", "hello", Ts("int", T1))

Bodies == ValidBodies \cup InvalidBodies \cup {ResentBody, NoSubjectBody, RawSentBody}

\* hmac.new(key, body, sha256).hexdigest(): a digest is determined by, and
\* determines, the key and the body it was computed over.
Hmac(key, body) == [tag |-> "hex", key |-> key, over |-> body]
\* request.headers.get('X-Brevo-Signature', ''): no header reads as ''.
EmptySignature == [tag |-> "empty", key |-> "", over |-> MalformedBody]

Secrets == {None, "k1"}

Request(sig, body) == [sig |-> sig, body |-> body]

\* Every body signed with the configured key, and a few requests whose
\* signature is missing or was made with another key.
Requests ==
    { Request(Hmac("k1", b), b) : b \in Bodies }
    \cup { Request(EmptySignature, b) :
             b \in {MalformedBody, Body("object", "request", "m1", "a@x", "hello", Ts("int", T1))} }
    \cup { Request(Hmac("k2", b), b) :
             b \in {Body("object", "delivered", "m1", "a@x", "hello", Ts("int", T1))} }

(***************************************************************************)
(* Responses                                                               *)
(***************************************************************************)
Response(code, text) == [code |-> code, text |-> text]
BadSignature   == Response(400, "Invalid signature")
BadJson        == Response(400, "Invalid JSON")
MissingFields  == Response(400, "Missing required fields")
BadTimestamp   == Response(400, "Invalid timestamp")
Ignored        == Response(200, "ignored:no_sent_event")
Ok             == Response(200, "ok")
\* An exception brevo_webhook does not catch: Django answers 500.
ServerError(exc) == Response(500, exc)
NoResponse     == Response(0, "")

(***************************************************************************)
(* brevo_webhook, lines 26-84: the checks made before the store is touched *)
(***************************************************************************)
ConfiguredUnlessEmpty(sec) == sec # ""
\* `if webhook_secret:` - None and '' both switch verification off.
Configured(sec) == sec \notin {None, ""}

SignatureRejectedIfPresent(sec, rq) ==
    Configured(sec) /\ rq.sig.tag # "empty" /\ rq.sig # [tag |-> "hex", key |-> sec, over |-> rq.body]
\* Lines 30-40.
SignatureRejected(sec, rq) ==
    Configured(sec) /\ rq.sig # Hmac(sec, rq.body)

\* Python truthiness of a payload value, as all([...]) tests it (line 56).
Truthy(v) == v \notin {Absent, ""}
TruthyTs(ts) ==
    CASE ts.tag = "absent" -> FALSE
      [] ts.tag = "int"    -> ts.v # 0
      [] OTHER             -> TRUE

\* payload.get('subject', ''), line 53.
SubjectOf(body) == IF body.subject = Absent THEN "" ELSE body.subject

MapEventDropsUnknown(name) ==
    CASE name = "request"     -> "sent"
      [] name = "delivered"   -> "delivered"
      [] name = "hard_bounce" -> "bounced"
      [] name = "soft_bounce" -> "bounced"
      [] name = "blocked"     -> "blocked"
      [] name = "spam"        -> "spam"
      [] name = "unsubscribe" -> "unsubscribed"
      [] name = "opened"      -> "opened"
      [] name = "click"       -> "clicked"
      [] name = "deferred"    -> "deferred"
      [] OTHER                -> "unknown"
\* Lines 69-83: event_mapping.get(event_type, event_type).
MapEvent(name) ==
    CASE name = "request"     -> "sent"
      [] name = "delivered"   -> "delivered"
      [] name = "hard_bounce" -> "bounced"
      [] name = "soft_bounce" -> "bounced"
      [] name = "blocked"     -> "blocked"
      [] name = "spam"        -> "spam"
      [] name = "unsubscribe" -> "unsubscribed"
      [] name = "opened"      -> "opened"
      [] name = "click"       -> "clicked"
      [] name = "deferred"    -> "deferred"
      [] OTHER                -> name

\* Lines 60-65: datetime.fromtimestamp(timestamp_unix, tz=utc). The result is
\* "ok" with the datetime, "caught" for the ValueError/OSError the handler
\* catches, or the name of the exception it does not catch.
FromTimestamp(ts) ==
    CASE ts.tag = "int"       -> [res |-> "ok", dt |-> ts.v]
      [] ts.tag = "yearrange" -> [res |-> "caught", dt |-> 0]
      [] ts.tag = "overflow"  -> [res |-> "OverflowError", dt |-> 0]
      [] OTHER                -> [res |-> "TypeError", dt |-> 0]

\* Lines 26-84 as a whole: either the response that ends the request, or
\* (resp = NoResponse) the values the rest of the handler works with.
Boundary(sec, rq) ==
    LET b    == rq.body
        conv == FromTimestamp(b.ts)
        stop(r) == [resp |-> r, event_type |-> None, our_event_type |-> None,
                    message_id |-> None, email_address |-> None,
                    subject |-> "", event_datetime |-> 0]
    IN  IF SignatureRejected(sec, rq) THEN stop(BadSignature)
        ELSE IF b.json = "malformed" THEN stop(BadJson)
        ELSE IF b.json = "nonobject" THEN stop(ServerError("AttributeError"))
        ELSE IF ~(Truthy(b.event) /\ Truthy(b.mid) /\ Truthy(b.email) /\ TruthyTs(b.ts))
             THEN stop(MissingFields)
        ELSE IF conv.res = "caught" THEN stop(BadTimestamp)
        ELSE IF conv.res # "ok" THEN stop(ServerError(conv.res))
        ELSE [resp |-> NoResponse, event_type |-> b.event,
              our_event_type |-> MapEvent(b.event),
              message_id |-> b.mid, email_address |-> b.email,
              subject |-> SubjectOf(b), event_datetime |-> conv.dt]

(***************************************************************************)
(* The store: BrevoMessage and BrevoEmail                                  *)
(***************************************************************************)
MatchingByMessageId(ems, mid, rcpt) ==
    { i \in 1..Len(ems) : ems[i].brevo_message_id = mid }
\* BrevoEmail.objects.get(brevo_message_id=..., recipient_email=...), line 88:
\* the pks of the matching rows.
Matching(ems, mid, rcpt) ==
    { i \in 1..Len(ems) :
        ems[i].brevo_message_id = mid /\ ems[i].recipient_email = rcpt }

LookupNeverFinds(ems, mid, rcpt) == 0
\* Lines 86-97: the pk found, 0 for DoesNotExist.
Lookup(ems, mid, rcpt) ==
    IF Matching(ems, mid, rcpt) = {} THEN 0
    ELSE CHOOSE i \in Matching(ems, mid, rcpt) : TRUE

\* Lines 111-117: BrevoMessage.objects.get_or_create(subject, sent_date).
MessageKey(subject, date) == [subject |-> subject, sent_date |-> date]
\* The rows of the BrevoMessage table with a given (subject, sent_date).
MessagesWith(msgs, key) == { i \in 1..Len(msgs) : msgs[i] = key }

InsertMessageUnconstrained(msgs, key) == [ok |-> TRUE, messages |-> Append(msgs, key)]
\* The INSERT inside get_or_create against the table's identity (subject,
\* sent_date), which the store keeps unique (spec 3): a second row for the
\* identity is refused with IntegrityError.
InsertMessage(msgs, key) ==
    IF MessagesWith(msgs, key) # {}
    THEN [ok |-> FALSE, messages |-> msgs]
    ELSE [ok |-> TRUE, messages |-> Append(msgs, key)]

\* get_or_create run without interruption: the row is fetched, and inserted
\* when there is none (an insert that is refused is followed by a fetch).
GetOrCreateMessage(msgs, subject, date) ==
    IF MessagesWith(msgs, MessageKey(subject, date)) # {} THEN msgs
    ELSE InsertMessage(msgs, MessageKey(subject, date)).messages

\* Lines 123-130: the row BrevoEmail.objects.create inserts.
NewEmail(mid, rcpt, subject, dt) ==
    [brevo_message_id |-> mid, recipient_email |-> rcpt,
     message |-> MessageKey(subject, DateOf(dt)),
     sent_at |-> dt, current_status |-> "sent", events |-> <<>>]

\* Lines 133-151: extra_data (the raw payload is left out of the event).
BounceType(event_type) ==
    IF event_type \in {"hard_bounce", "soft_bounce"}
    THEN (IF event_type = "hard_bounce" THEN "hard" ELSE "soft")
    ELSE ""

Event(kind, dt, event_type) ==
    [event_type |-> kind, timestamp |-> dt, bounce_type |-> BounceType(event_type)]

KindsOf(events) == { events[i].event_type : i \in 1..Len(events) }

\* The Status Deriver (spec 4.5): the first kind present in the fixed order,
\* 'sent' when none is.
StatusPriority == <<"clicked", "opened", "delivered", "bounced", "unsubscribed">>
DeriveStatus(kinds) ==
    IF \E i \in 1..Len(StatusPriority) : StatusPriority[i] \in kinds
    THEN StatusPriority[CHOOSE i \in 1..Len(StatusPriority) :
                          /\ StatusPriority[i] \in kinds
                          /\ \A j \in 1..(i-1) : StatusPriority[j] \notin kinds]
    ELSE "sent"

\* BrevoEmail.add_event (spec 4.4, 4.5): an event with the (kind, timestamp)
\* of a stored one is not inserted; otherwise it is appended and the status
\* is recomputed and saved.
IsDuplicate(events, kind, dt) ==
    \E i \in 1..Len(events) :
        events[i].event_type = kind /\ events[i].timestamp = dt

AddEvent(row, ev) ==
    IF IsDuplicate(row.events, ev.event_type, ev.timestamp) THEN row
    ELSE [row EXCEPT !.events = Append(@, ev),
                     !.current_status = DeriveStatus(KindsOf(Append(row.events, ev)))]

\* BrevoEmail.objects.create (lines 123-130) against the table's identity
\* pair, which the store keeps unique (spec 3): a second row for the pair is
\* refused with IntegrityError.
InsertEmail(ems, row) ==
    IF Matching(ems, row.brevo_message_id, row.recipient_email) # {}
    THEN [ok |-> FALSE, emails |-> ems]
    ELSE [ok |-> TRUE, emails |-> Append(ems, row)]

AppendEventNoDedup(ems, pk, v) ==
    LET evs == Append(ems[pk].events, Event(v.our_event_type, v.event_datetime, v.event_type))
    IN  [ems EXCEPT ![pk].events = evs,
                    ![pk].current_status = DeriveStatus(KindsOf(evs))]
AppendEventRawName(ems, pk, v) ==
    [ems EXCEPT ![pk] = AddEvent(@, Event(v.event_type, v.event_datetime, v.event_type))]
AppendEventResetsSentAt(ems, pk, v) ==
    [ems EXCEPT ![pk] = [AddEvent(@, Event(v.our_event_type, v.event_datetime, v.event_type))
                            EXCEPT !.sent_at = IF v.our_event_type = "sent"
                                               THEN v.event_datetime ELSE @]]
AppendEventLatestWins(ems, pk, v) ==
    [ems EXCEPT ![pk] =
        [AddEvent(@, Event(v.our_event_type, v.event_datetime, v.event_type))
            EXCEPT !.current_status = DeriveStatus({v.our_event_type})]]
AppendEventReplacesSameKind(ems, pk, v) ==
    LET ev   == Event(v.our_event_type, v.event_datetime, v.event_type)
        same == { n \in 1..Len(ems[pk].events) :
                    ems[pk].events[n].event_type = v.our_event_type }
    IN  IF same = {} THEN [ems EXCEPT ![pk] = AddEvent(@, ev)]
        ELSE [ems EXCEPT ![pk].events =
                 [n \in 1..Len(@) |-> IF n \in same THEN ev ELSE @[n]]]
AppendEventSkipsWhenStatusKept(ems, pk, v) ==
    IF /\ ems[pk].events # <<>>
       /\ DeriveStatus(KindsOf(ems[pk].events) \cup {v.our_event_type}) = ems[pk].current_status
    THEN ems
    ELSE [ems EXCEPT ![pk] = AddEvent(@, Event(v.our_event_type, v.event_datetime, v.event_type))]
AppendEventNoSave(ems, pk, v) ==
    [ems EXCEPT ![pk].events =
        IF IsDuplicate(@, v.our_event_type, v.event_datetime) THEN @
        ELSE Append(@, Event(v.our_event_type, v.event_datetime, v.event_type))]
\* Line 154: email.add_event(our_event_type, event_datetime, **extra_data) on
\* the row with primary key pk.
AppendEvent(ems, pk, v) ==
    [ems EXCEPT ![pk] = AddEvent(@, Event(v.our_event_type, v.event_datetime, v.event_type))]

\* `added` of line 154: whether add_event inserted the event.
Added(ems, pk, v) == ~IsDuplicate(ems[pk].events, v.our_event_type, v.event_datetime)

AddedResponseConflictOnDuplicate(added) ==
    IF added THEN Ok ELSE Response(409, "duplicate")
\* Lines 156-161: `added` only chooses the log line; the answer is 'ok'.
AddedResponse(added) == Ok

IsSentOrDelivered(kind) == (kind \in {"sent", "delivered"})
\* Line 84.
IsSentEvent(kind) == (kind = "sent")

GatedNever(pk, is_sent) == FALSE
\* Line 101: `if email is None and not is_sent_event` - the event is ignored.
Gated(pk, is_sent) == (pk = 0 /\ ~is_sent)

(***************************************************************************)
(* brevo_webhook as a whole (lines 18-161), one request at a time          *)
(***************************************************************************)
Outcome(msgs, ems, r) == [messages |-> msgs, emails |-> ems, resp |-> r]

Handle(sec, msgs, ems, rq) ==
    LET v       == Boundary(sec, rq)
        pk      == Lookup(ems, v.message_id, v.email_address)
        is_sent == IsSentEvent(v.our_event_type)
        msgs2   == GetOrCreateMessage(msgs, v.subject, DateOf(v.event_datetime))
        ins     == InsertEmail(ems, NewEmail(v.message_id, v.email_address,
                                             v.subject, v.event_datetime))
    IN  IF v.resp # NoResponse THEN Outcome(msgs, ems, v.resp)
        ELSE IF Gated(pk, is_sent) THEN Outcome(msgs, ems, Ignored)
        ELSE IF pk = 0 THEN
            IF ins.ok
            THEN Outcome(msgs2, AppendEvent(ins.emails, Len(ins.emails), v),
                         AddedResponse(Added(ins.emails, Len(ins.emails), v)))
            ELSE Outcome(msgs2, ems, ServerError("IntegrityError"))
        ELSE Outcome(msgs, AppendEvent(ems, pk, v), AddedResponse(Added(ems, pk, v)))

(***************************************************************************)
(* The read path: SupabaseClient (supabase.py) and the views (views.py)    *)
(***************************************************************************)
\* _get_date_filter, lines 86-93: timezone.now() - range_map.get(range, 7d).
RangeDelta(range) ==
    CASE range = "24h" -> DayTicks
      [] range = "7d"  -> 7 * DayTicks
      [] range = "30d" -> 30 * DayTicks
      [] range = "90d" -> 90 * DayTicks
      [] OTHER         -> 7 * DayTicks
FromDate(range, t) == t - RangeDelta(range)

\* A row of table emails and a row of table email_events.
EmailRow(id, rcpt, subj, at) ==
    [id |-> id, recipient_email |-> rcpt, subject |-> subj, sent_at |-> at]
EventRow(id, kind, at) ==
    [email_id |-> id, event_type |-> kind, event_timestamp |-> at]
NoRow == EmailRow("", "", "", 0)

\* sent_at=gte.<from_date>, lines 153-156 and 286-293.
InWindow(ems, range, t) == { e \in ems : e.sent_at >= FromDate(range, t) }
EventsOfEmail(evs, id) == { ev \in evs : ev.email_id = id }
EventKinds(evs, id) == { ev.event_type : ev \in EventsOfEmail(evs, id) }

FetchStatusBounceFirst(kinds) ==
    IF "clicked" \in kinds THEN "clicked"
    ELSE IF "opened" \in kinds THEN "opened"
    ELSE IF "bounced" \in kinds THEN "bounced"
    ELSE IF "delivered" \in kinds THEN "delivered"
    ELSE IF "unsubscribed" \in kinds THEN "unsubscribed"
    ELSE "sent"
\* _fetch_emails, lines 328-340: the status of one listed email.
FetchStatus(kinds) ==
    IF "clicked" \in kinds THEN "clicked"
    ELSE IF "opened" \in kinds THEN "opened"
    ELSE IF "delivered" \in kinds THEN "delivered"
    ELSE IF "bounced" \in kinds THEN "bounced"
    ELSE IF "unsubscribed" \in kinds THEN "unsubscribed"
    ELSE "sent"

\* `search_lower in text.lower()`, lines 297-301, for the texts of the model.
Contains(text, term) ==
    \/ term = ""
    \/ term = text
    \/ <<text, term>> \in { <<"a@x", "a@">>, <<"b@x", "b@">>, <<"a@x", "@x">>, <<"b@x", "@x">> }

ListRow(e, status) ==
    [id |-> e.id, recipient_email |-> e.recipient_email, subject |-> e.subject,
     sent_at |-> e.sent_at, current_status |-> status]

FetchEmailsEventsInWindow(ems, evs, range, search, t) ==
    LET sel  == InWindow(ems, range, t)
        filt == IF search # ""
                THEN { e \in sel : \/ Contains(e.recipient_email, search)
                                   \/ Contains(e.subject, search) }
                ELSE sel
        recent == { ev \in evs : ev.event_timestamp >= FromDate(range, t) }
    IN  { ListRow(e, FetchStatus(EventKinds(recent, e.id))) : e \in filt }
\* _fetch_emails, lines 271-347 (the order of the list is left out).
FetchEmails(ems, evs, range, search, t) ==
    LET sel  == InWindow(ems, range, t)
        filt == IF search # ""
                THEN { e \in sel : \/ Contains(e.recipient_email, search)
                                   \/ Contains(e.subject, search) }
                ELSE sel
    IN  { ListRow(e, FetchStatus(EventKinds(evs, e.id))) : e \in filt }

\* Lines 205-209: delivered_time - sent_time of one email. The store returns
\* the events in no stated order; the earliest delivered one stands for
\* next(e for e in email_events if e['event_type'] == 'delivered').
DeliveryTime(e, evs) ==
    LET ds == { ev.event_timestamp :
                  ev \in { x \in EventsOfEmail(evs, e.id) : x.event_type = "delivered" } }
    IN  (CHOOSE d \in ds : \A o \in ds : d <= o) - e.sent_at

\* sum(delivery_times), line 216.
RECURSIVE SumDeliveryTimes(_, _)
SumDeliveryTimes(S, evs) ==
    IF S = {} THEN 0
    ELSE LET x == CHOOSE y \in S : TRUE
         IN  DeliveryTime(x, evs) + SumDeliveryTimes(S \ {x}, evs)

Stats(total, drate, brate, avg, strend) ==
    [total_sent |-> total, delivery_rate |-> drate, bounce_rate |-> brate,
     avg_delivery_time |-> avg, sent_trend |-> strend]
ZeroStats == Stats(0, 0, 0, 0, <<>>)

FetchDashboardStatsFullRateWhenEmpty(ems, evs, range, t) ==
    LET sel       == InWindow(ems, range, t)
        total     == Cardinality(sel)
        delivered == { e \in sel : "delivered" \in EventKinds(evs, e.id) }
        bounced   == { e \in sel : "bounced" \in EventKinds(evs, e.id) }
    IN  IF total = 0 THEN Stats(0, 100, 0, 0, <<>>)
        ELSE Stats(total,
                   (Cardinality(delivered) * 100) \div total,
                   (Cardinality(bounced) * 100) \div total,
                   IF delivered = {} THEN 1
                   ELSE SumDeliveryTimes(delivered, evs) \div Cardinality(delivered),
                   [i \in 1..7 |-> total \div 7])
FetchDashboardStatsCountsEvents(ems, evs, range, t) ==
    LET sel       == InWindow(ems, range, t)
        total     == Cardinality(sel)
        ofSel(k)  == { ev \in evs : ev.event_type = k /\ \E e \in sel : e.id = ev.email_id }
        delivered == { e \in sel : "delivered" \in EventKinds(evs, e.id) }
    IN  IF total = 0 THEN ZeroStats
        ELSE Stats(total,
                   (Cardinality(ofSel("delivered")) * 100) \div total,
                   (Cardinality(ofSel("bounced")) * 100) \div total,
                   IF delivered = {} THEN 0
                   ELSE SumDeliveryTimes(delivered, evs) \div Cardinality(delivered),
                   [i \in 1..7 |-> total \div 7])
\* _fetch_dashboard_stats, lines 139-232. Rates and the average are floats
\* in the code and are floored to integers here; delivery_trend and
\* bounce_trend repeat the rates and are left out.
FetchDashboardStats(ems, evs, range, t) ==
    LET sel       == InWindow(ems, range, t)
        total     == Cardinality(sel)
        delivered == { e \in sel : "delivered" \in EventKinds(evs, e.id) }
        bounced   == { e \in sel : "bounced" \in EventKinds(evs, e.id) }
    IN  IF total = 0 THEN ZeroStats
        ELSE Stats(total,
                   (Cardinality(delivered) * 100) \div total,
                   (Cardinality(bounced) * 100) \div total,
                   IF delivered = {} THEN 0
                   ELSE SumDeliveryTimes(delivered, evs) \div Cardinality(delivered),
                   [i \in 1..7 |-> total \div 7])

\* What a client call returns and the cache holds: dashboard stats, an
\* email list, or an email detail.
Val(tag, stats, rows, email, events) ==
    [tag |-> tag, stats |-> stats, rows |-> rows, email |-> email, events |-> events]
NoVal == Val("none", ZeroStats, {}, NoRow, {})
StatsVal(st)       == Val("stats", st, {}, NoRow, {})
ListVal(rows)      == Val("list", ZeroStats, rows, NoRow, {})
DetailVal(e, evs)  == Val("detail", ZeroStats, {}, e, evs)

\* Python truthiness of a cached value, as the views test it
\* (`if cached_stats:`, views.py lines 46, 98, 140).
TruthyVal(v) ==
    CASE v.tag = "none" -> FALSE
      [] v.tag = "list" -> v.rows # {}
      [] OTHER          -> TRUE

\* A query: the view called and its GET parameters.
Query(type, range, search, id) ==
    [type |-> type, range |-> range, search |-> search, id |-> id]
DashboardQuery(range)    == Query("dashboard", range, "", "")
ListQuery(range, search) == Query("list", range, search, "")
DetailQuery(id)          == Query("detail", "", "", id)
NoQuery == Query("none", "", "", "")

\* The cache key the client builds (supabase.py lines 122, 254, 371).
ClientKey(q) ==
    CASE q.type = "dashboard" -> "brevo_dashboard_" \o q.range
      [] q.type = "list"      -> "brevo_emails_" \o q.range \o "_" \o q.search
      [] OTHER                -> "brevo_email_" \o q.id
\* The cache key the view builds for its fallback (views.py lines 43, 95, 137).
ViewKey(q) ==
    CASE q.type = "dashboard" -> "brevo_dashboard_" \o q.range
      [] q.type = "list"      -> "brevo_emails_" \o q.range \o "_" \o q.search
      [] OTHER                -> "brevo_email_" \o q.id

\* _fetch_dashboard_stats / _fetch_emails / _fetch_email_detail against a
\* reachable store: the value, or NoVal when _fetch_email_detail raises
\* 'not found' (lines 407-408).
Compute(q, ems, evs, t) ==
    CASE q.type = "dashboard" -> StatsVal(FetchDashboardStats(ems, evs, q.range, t))
      [] q.type = "list"      -> ListVal(FetchEmails(ems, evs, q.range, q.search, t))
      [] OTHER                ->
            IF \E e \in ems : e.id = q.id
            THEN DetailVal(CHOOSE e \in ems : e.id = q.id, EventsOfEmail(evs, q.id))
            ELSE NoVal

\* django.core.cache: an entry is gone once its expiry time is reached.
Entry(v, exp) == [val |-> v, expires |-> exp]
NoEntry == Entry(NoVal, 0)
CacheGetIgnoresExpiry(c, k, t) == c[k].val
CacheGet(c, k, t) == IF t < c[k].expires THEN c[k].val ELSE NoVal
CacheSetKeepsLiveEntry(c, k, v, t) ==
    IF t < c[k].expires THEN c ELSE [c EXCEPT ![k] = Entry(v, t + CacheTimeout)]
CacheSet(c, k, v, t) == [c EXCEPT ![k] = Entry(v, t + CacheTimeout)]

\* What a view ends with: the context it renders (or the redirect).
Rendered(state, v, healthy, msg) ==
    [state |-> state, value |-> v, api_healthy |-> healthy, message |-> msg]
NotRendered == Rendered("none", NoVal, "unset", "")
\* views.py lines 35-39, 89-91, 130-133.
Live(v) == Rendered("live", v, "true", "")
\* views.py lines 46-52, 98-101, 140-144.
Stale(v) == Rendered("stale", v, "false", "warning")
UnavailableFlaggedHealthy(q) ==
    IF q.type = "detail" THEN Rendered("redirect", NoVal, "unset", "error")
    ELSE Rendered("unavailable", IF q.type = "list" THEN ListVal({}) ELSE NoVal,
                  "true", "error")
\* views.py lines 53-59 and 102-105; lines 145-147 redirect to the list.
Unavailable(q) ==
    IF q.type = "detail" THEN Rendered("redirect", NoVal, "unset", "error")
    ELSE Rendered("unavailable", IF q.type = "list" THEN ListVal({}) ELSE NoVal,
                  "false", "error")
\* The except branch of the views as a whole.
Fallback(q, c, t) ==
    IF TruthyVal(CacheGet(c, ViewKey(q), t))
    THEN Stale(CacheGet(c, ViewKey(q), t))
    ELSE Unavailable(q)

\* The exceptions a recomputation ends with when the store cannot be used:
\* the transport fails (requests raises RequestException, which _get turns
\* into SupabaseAPIError, supabase.py lines 72-74), or the answer is not what
\* the code expects (ValueError from response.json() or fromisoformat,
\* KeyError from a missing column).
StoreFailures == {"SupabaseAPIError", "ValueError", "KeyError"}
\* An exception raised inside a client call and the one the call lets out.
Raised(inner, outer) == [raised |-> inner, surfaced |-> outer]
NoException == Raised("", "")

ClientWrapsApiErrorsOnly(exc) == exc
\* `except Exception as e: raise SupabaseAPIError(...)` (supabase.py lines
\* 135-137, 267-269, 384-386).
ClientWraps(exc) == "SupabaseAPIError"
\* `except SupabaseAPIError as e:` (views.py lines 40, 92, 134).
ViewCatches(exc) == (exc = "SupabaseAPIError")
\* An exception the view does not catch leaves it.
Propagated(exc) == Rendered("exception", NoVal, "unset", exc)

(***************************************************************************)
(* State                                                                   *)
(***************************************************************************)
Workers == 1..NumWorkers
Pairs   == MessageIds \X Recipients
NoRequest == Request(EmptySignature, MalformedBody)

QWorkers == 1..NumQueries
\* The queries the views are called with.
Queries ==
    { DashboardQuery("7d"), DashboardQuery("24h"),
      ListQuery("7d", ""), ListQuery("7d", "b@"), ListQuery("24h", ""),
      DetailQuery("e1"), DetailQuery("e9") }
\* Queries whose `range` parameter is not one of the four windows: the views
\* pass request.GET['range'] on as it comes (views.py lines 26, 77), and
\* _get_date_filter reads an unknown one as 7 days.
KeyQueries ==
    { ListQuery("7d", "x_b@"), ListQuery("7d_x", "b@"), ListQuery("7d", "b@"),
      DashboardQuery("7d"), DetailQuery("e1") }
CacheKeys ==
    { ClientKey(q) : q \in Queries \cup KeyQueries }
    \cup { ViewKey(q) : q \in Queries \cup KeyQueries }

\* The state of the read path before any view was called.
InitRead ==
    /\ apiUp = TRUE
    /\ now = 0
    /\ cache = [k \in CacheKeys |-> NoEntry]
    /\ qpc = [v \in QWorkers |-> "idle"]
    /\ qry = [v \in QWorkers |-> NoQuery]
    /\ qval = [v \in QWorkers |-> NoVal]
    /\ qout = [v \in QWorkers |-> NotRendered]
    /\ qprior = [v \in QWorkers |-> NoVal]
    /\ qfailed = [v \in QWorkers |-> FALSE]
    /\ qexc = [v \in QWorkers |-> NoException]

\* The state of the webhook endpoint before any request.
InitHooks ==
    /\ messages = <<>>
    /\ emails = <<>>
    /\ hist = <<>>
    /\ resps = <<>>
    /\ prevEmails = <<>>
    /\ prevMessages = <<>>
    /\ pc = [w \in Workers |-> "idle"]
    /\ req = [w \in Workers |-> NoRequest]
    /\ loc = [w \in Workers |-> 0]
    /\ wresp = [w \in Workers |-> NoResponse]
    /\ creates = [p \in Pairs |-> 0]

Init ==
    /\ secret \in Secrets
    /\ InitHooks
    /\ sbEmails = {}
    /\ sbEvents = {}
    /\ InitRead

(***************************************************************************)
(* Spec: webhooks handled one after the other                              *)
(***************************************************************************)
Deliver(rq) ==
    /\ Len(hist) < MaxReqs
    /\ LET out == Handle(secret, messages, emails, rq)
       IN  /\ messages' = out.messages
           /\ emails' = out.emails
           /\ resps' = Append(resps, out.resp)
    /\ hist' = Append(hist, rq)
    /\ prevEmails' = emails
    /\ prevMessages' = messages
    /\ UNCHANGED <<secret, concVars, readVars>>

Next == \E rq \in Requests : Deliver(rq)

Spec == Init /\ [][Next]_vars

(***************************************************************************)
(* Spec: what the claims speak of                                          *)
(***************************************************************************)
Handled   == hist # <<>>
LastReq   == hist[Len(hist)]
LastResp  == resps[Len(resps)]
LastBody  == LastReq.body
\* The request passed the checks of lines 26-65.
PassesBoundary(rq) == Boundary(secret, rq).resp = NoResponse
KindOf(rq) == MapEvent(rq.body.event)
StoreUnchanged == emails = prevEmails /\ messages = prevMessages
\* The rows of the identity pair of request rq, in a BrevoEmail table.
RowsOf(ems, rq) == Matching(ems, rq.body.mid, rq.body.email)
\* The events stored for rq's identity with rq's kind and timestamp.
StoredEvents(ems, rq) ==
    UNION { { <<i, k>> : k \in { n \in 1..Len(ems[i].events) :
                                   /\ ems[i].events[n].event_type = KindOf(rq)
                                   /\ ems[i].events[n].timestamp = rq.body.ts.v } } :
            i \in RowsOf(ems, rq) }
StatusesOf(ems, rq) == { ems[i].current_status : i \in RowsOf(ems, rq) }

\* C1 (gating): a valid webhook whose canonical kind is not 'sent', for an
\* identity pair without Email record, is answered 200 ignored/no_sent_event
\* and leaves the Message and Email tables (events included) as they were.
C1_GatingIgnores ==
    (/\ Handled
     /\ PassesBoundary(LastReq)
     /\ KindOf(LastReq) # "sent"
     /\ RowsOf(prevEmails, LastReq) = {})
    => (LastResp = Ignored /\ StoreUnchanged)

C1_Witness ==
    /\ Handled
    /\ PassesBoundary(LastReq)
    /\ KindOf(LastReq) = "delivered"
    /\ RowsOf(prevEmails, LastReq) = {}
    /\ prevEmails # <<>>
    /\ LastResp = Ignored

\* The same body submitted twice in a row, both times passing validation.
SubmittedTwice ==
    /\ Len(hist) >= 2
    /\ hist[Len(hist)] = hist[Len(hist) - 1]
    /\ PassesBoundary(LastReq)

\* C2 as stated (idempotency for every valid payload): after the second of
\* two identical submissions exactly one Event with that identity, kind and
\* timestamp is stored and the status is what it was after the first.
C2_Original ==
    SubmittedTwice =>
        /\ Cardinality(StoredEvents(emails, LastReq)) = 1
        /\ StatusesOf(emails, LastReq) = StatusesOf(prevEmails, LastReq)

\* The payload is not one the gating rule ignores.
NotGated(rq) == KindOf(rq) = "sent" \/ RowsOf(prevEmails, rq) # {}

\* C2 (amended): for a valid payload the gating rule does not ignore, two
\* submissions in a row leave exactly one Event with that identity, kind and
\* timestamp, the second changes nothing and the status is unchanged; for a
\* payload the gating rule ignores, both are ignored and no Event is stored.
C2_Idempotent ==
    SubmittedTwice =>
        IF NotGated(LastReq)
        THEN /\ Cardinality(StoredEvents(emails, LastReq)) = 1
             /\ Cardinality(StatusesOf(emails, LastReq)) = 1
             /\ StatusesOf(emails, LastReq) = StatusesOf(prevEmails, LastReq)
             /\ StoreUnchanged
        ELSE /\ StoredEvents(emails, LastReq) = {}
             /\ LastResp = Ignored /\ resps[Len(resps) - 1] = Ignored
             /\ StoreUnchanged

C2_Witness ==
    /\ SubmittedTwice
    /\ KindOf(LastReq) = "bounced"
    /\ RowsOf(prevEmails, LastReq) # {}
    /\ Cardinality(StoredEvents(emails, LastReq)) = 1
    /\ StatusesOf(emails, LastReq) = {"bounced"}

\* A signed, valid webhook for the pair (m1, a@x).
Hook(ev, t) == Request(Hmac("k1", Body("object", ev, "m1", "a@x", "hello", Ts("int", t))),
                       Body("object", ev, "m1", "a@x", "hello", Ts("int", t)))
SentFirst  == <<Hook("request", T1), Hook("hard_bounce", T2), Hook("delivered", T2)>>
SentLast   == <<Hook("delivered", T2), Hook("hard_bounce", T2), Hook("request", T1)>>
StatusOfA  == StatusesOf(emails, Hook("request", T1))

\* C3 as stated (order-independence): from an empty store, sent, bounced,
\* delivered in that order and in the reverse order both end with
\* current_status = 'delivered'.
C3_Original ==
    (hist = SentFirst \/ hist = SentLast) => StatusOfA = {"delivered"}

\* The webhooks of hist that passed validation and belong to pair p.
HooksOf(p) ==
    { i \in 1..Len(hist) :
        /\ PassesBoundary(hist[i])
        /\ <<hist[i].body.mid, hist[i].body.email>> = p }
SentHooksOf(p) == { i \in HooksOf(p) : KindOf(hist[i]) = "sent" }
\* Those that arrived no earlier than the pair's first 'sent' webhook.
AcceptedOf(p) ==
    { i \in HooksOf(p) : \E j \in SentHooksOf(p) : j <= i }
AcceptedKinds(p) == { KindOf(hist[i]) : i \in AcceptedOf(p) }

\* C3 (amended): sent, bounced, delivered in that order ends with
\* current_status 'delivered'; in the reverse order delivered and bounced
\* arrive before the Email exists and are ignored, and the status ends 'sent'.
\* In general an Email exists exactly when a 'sent' webhook arrived for its
\* pair, and its events and status are those of the webhooks that arrived no
\* earlier than the first 'sent' one, whatever their order.
C3_OrderUpToGating ==
    /\ hist = SentFirst => StatusOfA = {"delivered"}
    /\ hist = SentLast => StatusOfA = {"sent"}
    /\ \A p \in Pairs :
        LET rows == Matching(emails, p[1], p[2])
        IN  /\ (rows = {}) <=> (SentHooksOf(p) = {})
            /\ \A i \in rows :
                 /\ KindsOf(emails[i].events) = AcceptedKinds(p)
                 /\ emails[i].current_status = DeriveStatus(AcceptedKinds(p))

C3_Witness ==
    /\ hist = SentLast
    /\ resps = <<Ignored, Ignored, Ok>>
    /\ StatusOfA = {"sent"}

\* C6 (invalid signature): with a secret configured, a request whose
\* X-Brevo-Signature (none = empty) differs from the HMAC-SHA256 of the raw
\* body is answered 400 'Invalid signature' whatever the body holds, and the
\* Message and Email tables stay as they were.
C6_BadSignatureRejected ==
    (/\ Handled
     /\ Configured(secret)
     /\ LastReq.sig # Hmac(secret, LastBody))
    => (LastResp = BadSignature /\ StoreUnchanged)

C6_Witness ==
    /\ Handled
    /\ Configured(secret)
    /\ LastReq.sig = EmptySignature
    /\ LastBody.json = "malformed"
    /\ LastResp = BadSignature
    /\ emails # <<>>

\* The body is malformed JSON, lacks a required field, or carries a ts_event
\* that cannot be converted to a timestamp.
Unprocessable(b) ==
    \/ b.json = "malformed"
    \/ /\ b.json = "object"
       /\ \/ Absent \in {b.event, b.mid, b.email}
          \/ b.ts.tag \in {"absent", "yearrange", "overflow", "str"}

\* C7 as stated: every such request is answered 400 and leaves the Message
\* and Email tables unchanged.
C7_Original ==
    (Handled /\ Unprocessable(LastBody))
    => (LastResp.code = 400 /\ StoreUnchanged)

\* C9 (status persisted): after every request answered 'ok' the stored
\* current_status of its Email is the Status Deriver's result over the kinds
\* of the events stored for that Email.
C9_StatusIsDerived ==
    (Handled /\ LastResp = Ok)
    => /\ RowsOf(emails, LastReq) # {}
       /\ \A i \in RowsOf(emails, LastReq) :
            emails[i].current_status = DeriveStatus(KindsOf(emails[i].events))

C9_Witness ==
    /\ Handled
    /\ LastResp = Ok
    /\ KindOf(LastReq) = "bounced"
    /\ \E i \in RowsOf(emails, LastReq) :
         /\ KindsOf(emails[i].events) = {"sent", "delivered", "bounced"}
         /\ emails[i].current_status = "delivered"

\* The request handled in this step.
Handling(rq) == Len(hist') = Len(hist) + 1 /\ hist'[Len(hist')] = rq

\* C15 (sent_at is set once): no step removes or re-identifies an Email or
\* changes its sent_at; a webhook for an identity whose Email exists, a
\* further 'sent' one with another timestamp and subject included, creates
\* no Email; and an Email that is created gets the timestamp of the 'sent'
\* webhook that created it.
C15_SentAtFixed ==
    [][ /\ Len(emails') >= Len(emails)
        /\ \A i \in 1..Len(emails) :
             /\ emails'[i].sent_at = emails[i].sent_at
             /\ emails'[i].brevo_message_id = emails[i].brevo_message_id
             /\ emails'[i].recipient_email = emails[i].recipient_email
        /\ \A rq \in Requests :
             Handling(rq) =>
                /\ RowsOf(emails, rq) # {} => Len(emails') = Len(emails)
                /\ Len(emails') > Len(emails) =>
                      /\ Len(emails') = Len(emails) + 1
                      /\ KindOf(rq) = "sent"
                      /\ emails'[Len(emails')].sent_at = rq.body.ts.v ]_vars

\* A 'sent' webhook created the Email at T1; a second 'sent' webhook for the
\* identity, at T2 and with another subject, was answered 'ok' and stored as
\* an event, and the Email is still the only one and still sent at T1.
C15_Witness ==
    /\ Len(hist) = 2
    /\ hist[1].body = Body("object", "request", "m1", "a@x", "hello", Ts("int", T1))
    /\ hist[2].body = ResentBody
    /\ resps = <<Ok, Ok>>
    /\ Len(emails) = 1
    /\ emails[1].sent_at = T1
    /\ emails[1].message.subject = "hello"
    /\ Len(emails[1].events) = 2

\* The i-th webhook of hist passed validation, has canonical kind k and is
\* for the identity (m1, r).
IsHookFor(i, k, r) ==
    /\ i <= Len(hist)
    /\ PassesBoundary(hist[i])
    /\ KindOf(hist[i]) = k
    /\ hist[i].body.mid = "m1" /\ hist[i].body.email = r

\* C16 (gating recovery): from the empty store, a 'delivered' webhook for an
\* unknown identity is ignored and stores nothing; a 'sent' webhook that
\* follows for the identity is answered 'ok' and creates exactly one Email,
\* with status 'sent' and the 'sent' event alone; a 'delivered' webhook that
\* follows that is answered 'ok', is stored as the second event, and the
\* status becomes 'delivered'.
C16_GatingRecovery ==
    \A r \in Recipients :
        LET rows == Matching(emails, "m1", r)
        IN  IsHookFor(1, "delivered", r) =>
              /\ resps[1] = Ignored
              /\ Len(hist) = 1 => (emails = <<>> /\ messages = <<>>)
              /\ IsHookFor(2, "sent", r) =>
                    /\ resps[2] = Ok
                    /\ Cardinality(rows) = 1
                    /\ Len(hist) = 2 =>
                          \A i \in rows : /\ emails[i].current_status = "sent"
                                          /\ KindsOf(emails[i].events) = {"sent"}
                                          /\ Len(emails[i].events) = 1
                    /\ IsHookFor(3, "delivered", r) =>
                          /\ resps[3] = Ok
                          /\ Len(hist) = 3 =>
                                \A i \in rows :
                                    /\ emails[i].current_status = "delivered"
                                    /\ Len(emails[i].events) = 2
                                    /\ emails[i].events[2].event_type = "delivered"
                                    /\ emails[i].events[2].timestamp = hist[3].body.ts.v

\* The 'delivered' webhook came first and was ignored, 'sent' created the
\* Email, and the same 'delivered' webhook, delivered again, was accepted.
C16_Witness ==
    /\ hist = <<Hook("delivered", T2), Hook("request", T1), Hook("delivered", T2)>>
    /\ resps = <<Ignored, Ok, Ok>>
    /\ Len(emails) = 1
    /\ emails[1].current_status = "delivered"
    /\ KindsOf(emails[1].events) = {"sent", "delivered"}
    /\ Len(messages) = 1

\* The last webhook repeated an event its Email already held.
WasDuplicate ==
    \E i \in RowsOf(prevEmails, LastReq) :
        \E n \in 1..Len(prevEmails[i].events) :
            /\ prevEmails[i].events[n].event_type = KindOf(LastReq)
            /\ prevEmails[i].events[n].timestamp = LastReq.body.ts.v

\* C17 (duplicates are not errors): a webhook that passes the signature and
\* payload checks and whose Email existed or was created by the request is
\* answered 200 {"status": "ok"}, whether its event was inserted or was a
\* duplicate; a duplicate changes nothing and is answered 'ok' too.
C17_OkForAccepted ==
    (Handled /\ PassesBoundary(LastReq)) =>
        /\ (RowsOf(prevEmails, LastReq) # {} \/ Len(emails) > Len(prevEmails))
              => LastResp = [code |-> 200, text |-> "ok"]
        /\ WasDuplicate => (LastResp = [code |-> 200, text |-> "ok"] /\ StoreUnchanged)

\* A 'delivered' webhook was accepted and then delivered again: the second
\* one inserted nothing and was answered 'ok'.
C17_Witness ==
    /\ Len(hist) = 3
    /\ hist[2] = hist[3]
    /\ KindOf(LastReq) = "delivered"
    /\ WasDuplicate
    /\ resps = <<Ok, Ok, Ok>>
    /\ \E i \in RowsOf(emails, LastReq) : Len(emails[i].events) = 2

\* C22 (no secret, no check): with no webhook secret configured (None or
\* the empty string) a request is handled, in every state of the store, as
\* the same body without X-Brevo-Signature header is: same answer, same
\* writes, whatever the header holds; and none is answered 'Invalid
\* signature'.
C22_NoSecretNoCheck ==
    /\ \A sec \in {None, ""} :
          \A rq \in Requests :
              /\ Handle(sec, messages, emails, rq)
                    = Handle(sec, messages, emails, Request(EmptySignature, rq.body))
              /\ Handle(sec, messages, emails, rq).resp # BadSignature
    /\ (secret = None /\ Handled) =>
          /\ LastResp # BadSignature
          /\ LET out == Handle(None, prevMessages, prevEmails,
                               Request(EmptySignature, LastBody))
             IN  LastResp = out.resp /\ emails = out.emails /\ messages = out.messages

\* No secret is configured; after 'sent' created the Email, a 'delivered'
\* webhook signed with a key of someone else was accepted and stored.
C22_Witness ==
    /\ secret = None
    /\ Len(hist) = 2
    /\ hist[1] = Hook("request", T1)
    /\ hist[2].sig = Hmac("k2", hist[2].body)
    /\ resps = <<Ok, Ok>>
    /\ Len(emails) = 1
    /\ emails[1].current_status = "delivered"

(***************************************************************************)
(* SpecEvents: webhooks of every provider event name, one after the other  *)
(***************************************************************************)
\* The names Brevo sends, and names the mapping of lines 70-81 does not list.
ProviderNames ==
    {"request", "delivered", "hard_bounce", "soft_bounce", "blocked", "spam",
     "unsubscribe", "opened", "click", "deferred"}
OtherNames == {"sent", "list_addition", "error"}

EventRequests ==
    { Request(Hmac("k1", b), b) :
        b \in { Body("object", ev, "m1", "a@x", "hello", Ts("int", T1)) :
                  ev \in ProviderNames \cup OtherNames } }

NextEvents == \E rq \in EventRequests : Deliver(rq)

SpecEvents == Init /\ [][NextEvents]_vars

\* The canonical kind the Event Mapper is to give for a provider name.
CanonicalPairs ==
    { <<"request", "sent">>, <<"delivered", "delivered">>, <<"hard_bounce", "bounced">>,
      <<"soft_bounce", "bounced">>, <<"blocked", "blocked">>, <<"spam", "spam">>,
      <<"unsubscribe", "unsubscribed">>, <<"opened", "opened">>,
      <<"click", "clicked">>, <<"deferred", "deferred">> }
Canonical(name) ==
    IF \E pr \in CanonicalPairs : pr[1] = name
    THEN (CHOOSE pr \in CanonicalPairs : pr[1] = name)[2]
    ELSE name

\* C19 (Event Mapper): the ten provider names map to sent, delivered,
\* bounced, bounced, blocked, spam, unsubscribed, opened, clicked, deferred,
\* every other name maps to itself, and the mapping never fails: a valid
\* webhook of any name is answered 'ok' or 'ignored', it is ignored exactly
\* when its canonical kind is not 'sent' and its Email does not exist, and
\* when it is answered 'ok' its Email holds an event of its canonical kind.
C19_EventMapper ==
    /\ \A name \in ProviderNames \cup OtherNames : MapEvent(name) = Canonical(name)
    /\ Handled =>
          /\ LastResp \in {Ok, Ignored}
          /\ LastResp = Ignored <=>
                (Canonical(LastBody.event) # "sent" /\ RowsOf(prevEmails, LastReq) = {})
          /\ LastResp = Ok =>
                \E i \in RowsOf(emails, LastReq) :
                    \E n \in 1..Len(emails[i].events) :
                        /\ emails[i].events[n].event_type = Canonical(LastBody.event)
                        /\ emails[i].events[n].timestamp = LastBody.ts.v
          /\ \A i \in 1..Len(emails) :
                KindsOf(emails[i].events) \subseteq
                    { Canonical(hist[j].body.event) : j \in 1..Len(hist) }

\* 'request' created the Email, 'click' was stored as 'clicked', and a name
\* the mapping does not list was stored under that name.
C19_Witness ==
    /\ Len(hist) = 3
    /\ hist[1].body.event = "request"
    /\ hist[2].body.event = "click"
    /\ hist[3].body.event = "list_addition"
    /\ resps = <<Ok, Ok, Ok>>
    /\ Len(emails) = 1
    /\ KindsOf(emails[1].events) = {"sent", "clicked", "list_addition"}
    /\ emails[1].current_status = "clicked"

(***************************************************************************)
(* SpecConc: concurrent workers, one step per database operation           *)
(***************************************************************************)
\* The webhooks the concurrent workers receive: signed, valid, for the two
\* recipients, at one instant.
ConcRequests ==
    { Request(Hmac("k1", b), b) :
        b \in { Body("object", ev, "m1", em, "hello", Ts("int", T1)) :
                  ev \in {"request", "delivered"}, em \in Recipients } }

\* What worker w works with after lines 26-84.
Vals(w) == Boundary(secret, req[w])
PairOf(w) == <<Vals(w).message_id, Vals(w).email_address>>

\* Lines 18-84: the request arrives and is checked; nothing is read or
\* written. Workers take their requests in order of arrival.
Receive(w, rq) ==
    /\ pc[w] = "idle"
    /\ \A u \in Workers : u < w => pc[u] # "idle"
    /\ req' = [req EXCEPT ![w] = rq]
    /\ LET v == Boundary(secret, rq)
       IN  IF v.resp # NoResponse
           THEN /\ pc' = [pc EXCEPT ![w] = "done"]
                /\ wresp' = [wresp EXCEPT ![w] = v.resp]
           ELSE /\ pc' = [pc EXCEPT ![w] = "lookup"]
                /\ UNCHANGED wresp
    /\ UNCHANGED <<secret, storeVars, seqVars, loc, creates, readVars>>

\* Lines 86-106: the SELECT of BrevoEmail.objects.get, then the gate.
DoLookup(w) ==
    /\ pc[w] = "lookup"
    /\ LET v  == Vals(w)
           pk == Lookup(emails, v.message_id, v.email_address)
       IN  /\ loc' = [loc EXCEPT ![w] = pk]
           /\ IF Gated(pk, IsSentEvent(v.our_event_type))
              THEN /\ pc' = [pc EXCEPT ![w] = "done"]
                   /\ wresp' = [wresp EXCEPT ![w] = Ignored]
              ELSE /\ pc' = [pc EXCEPT ![w] = IF pk = 0 THEN "get_or_create" ELSE "add_event"]
                   /\ UNCHANGED wresp
    /\ UNCHANGED <<secret, storeVars, seqVars, req, creates, readVars>>

\* The Message key of worker w's request (lines 112-113).
KeyOf(w) == MessageKey(Vals(w).subject, DateOf(Vals(w).event_datetime))

\* Lines 108-117, first half of BrevoMessage.objects.get_or_create: the
\* SELECT. A row that is found is used; otherwise the INSERT follows.
DoGetOrCreate(w) ==
    /\ pc[w] = "get_or_create"
    /\ pc' = [pc EXCEPT ![w] = IF MessagesWith(messages, KeyOf(w)) # {}
                               THEN "create" ELSE "insert_message"]
    /\ UNCHANGED <<secret, storeVars, seqVars, req, loc, wresp, creates, readVars>>

\* Second half of get_or_create: the INSERT. When the table refuses it
\* because another request inserted the row meanwhile, get_or_create catches
\* the IntegrityError and fetches that row.
DoInsertMessage(w) ==
    /\ pc[w] = "insert_message"
    /\ messages' = InsertMessage(messages, KeyOf(w)).messages
    /\ pc' = [pc EXCEPT ![w] = "create"]
    /\ UNCHANGED <<secret, emails, seqVars, req, loc, wresp, creates, readVars>>

\* Lines 122-131: BrevoEmail.objects.create; an IntegrityError is not caught.
DoCreate(w) ==
    /\ pc[w] = "create"
    /\ creates' = [creates EXCEPT ![PairOf(w)] = @ + 1]
    /\ LET v   == Vals(w)
           ins == InsertEmail(emails, NewEmail(v.message_id, v.email_address,
                                               v.subject, v.event_datetime))
       IN  IF ins.ok
           THEN /\ emails' = ins.emails
                /\ loc' = [loc EXCEPT ![w] = Len(ins.emails)]
                /\ pc' = [pc EXCEPT ![w] = "add_event"]
                /\ UNCHANGED wresp
           ELSE /\ pc' = [pc EXCEPT ![w] = "done"]
                /\ wresp' = [wresp EXCEPT ![w] = ServerError("IntegrityError")]
                /\ UNCHANGED <<emails, loc>>
    /\ UNCHANGED <<secret, messages, seqVars, req, readVars>>

\* Lines 133-161: email.add_event and the 'ok' response.
DoAddEvent(w) ==
    /\ pc[w] = "add_event"
    /\ emails' = AppendEvent(emails, loc[w], Vals(w))
    /\ pc' = [pc EXCEPT ![w] = "done"]
    /\ wresp' = [wresp EXCEPT ![w] = AddedResponse(Added(emails, loc[w], Vals(w)))]
    /\ UNCHANGED <<secret, messages, seqVars, req, loc, creates, readVars>>

\* The database fails under the statement worker w is about to run (the
\* SELECT of line 88, get_or_create of line 111, create of line 123 or
\* add_event of line 154): the exception is caught nowhere in brevo_webhook,
\* Django answers 500, and what the earlier statements of the request wrote
\* stays written (no transaction is opened).
StoreFails(w) ==
    /\ pc[w] \in {"lookup", "get_or_create", "insert_message", "create", "add_event"}
    /\ pc' = [pc EXCEPT ![w] = "done"]
    /\ wresp' = [wresp EXCEPT ![w] = ServerError("OperationalError")]
    /\ UNCHANGED <<secret, storeVars, seqVars, req, loc, creates, readVars>>

NextConc ==
    \E w \in Workers :
        \/ \E rq \in ConcRequests : Receive(w, rq)
        \/ DoLookup(w)
        \/ DoGetOrCreate(w)
        \/ DoInsertMessage(w)
        \/ DoCreate(w)
        \/ DoAddEvent(w)
        \/ StoreFails(w)

SpecConc == Init /\ [][NextConc]_vars

(***************************************************************************)
(* SpecConc: what the claims speak of                                      *)
(***************************************************************************)
\* C4 as stated (concurrent 'sent' webhooks): in every reachable state at
\* most one Email record exists per (message-id, email) pair, and no two
\* requests both find 'does not exist' and both execute the create.
C4_Original ==
    \A p \in Pairs :
        /\ Cardinality(Matching(emails, p[1], p[2])) <= 1
        /\ creates[p] <= 1

Quiescent == \A w \in Workers : pc[w] \in {"idle", "done"}
\* A Message no Email refers to; an Email with an empty event log.
OrphanMessages ==
    { m \in 1..Len(messages) : \A i \in 1..Len(emails) : emails[i].message # messages[m] }
EmptyEmails == { i \in 1..Len(emails) : emails[i].events = <<>> }

\* C13 as stated (store failure): a store operation that fails at any step
\* of brevo_webhook ends the request with a 5xx answer and leaves nothing
\* of the request behind: once no request is in flight there is no Message
\* without its Email and no Email without its first event.
C13_Original ==
    /\ \A w \in Workers :
          (pc[w] = "done" /\ wresp[w] \notin {Ok, Ignored}) => wresp[w].code >= 500
    /\ Quiescent => (OrphanMessages = {} /\ EmptyEmails = {})

\* C14 as stated (no Email without events): in every state another request
\* can observe, no Email record has an empty event log.
C14_Original == EmptyEmails = {}

(***************************************************************************)
(* SpecRead: dashboard_view, email_list_view, email_detail_view            *)
(***************************************************************************)
\* What the Supabase tables may hold when the views are called.
ReadStores ==
    { [emails |-> {}, events |-> {}],
      [emails |-> { EmailRow("e1", "a@x", "hello", 0), EmailRow("e2", "b@x", "hello", 0) },
       events |-> { EventRow("e1", "sent", 0), EventRow("e1", "delivered", 1),
                    EventRow("e2", "sent", 0), EventRow("e2", "bounced", 1) }],
      [emails |-> { EmailRow("e1", "a@x", "hello", 0) },
       events |-> { EventRow("e1", "sent", 0), EventRow("e1", "bounced", 1) }],
      [emails |-> { EmailRow("e1", "a@x", "hello", 2), EmailRow("e2", "b@x", "hello", 0) },
       events |-> { EventRow("e1", "sent", 2), EventRow("e1", "opened", 0),
                    EventRow("e2", "sent", 0) }] }

InitReadPath ==
    /\ secret = None
    /\ InitHooks
    /\ \E st \in ReadStores : sbEmails = st.emails /\ sbEvents = st.events
    /\ InitRead

\* The view is called and the client reads the cache (views.py lines 11-35,
\* supabase.py lines 118-127): a hit is returned and rendered as live data.
QStart(v, q) ==
    /\ qpc[v] = "idle"
    /\ \A u \in QWorkers : u < v => qpc[u] # "idle"
    /\ qry' = [qry EXCEPT ![v] = q]
    /\ qprior' = [qprior EXCEPT ![v] = cache[ViewKey(q)].val]
    /\ IF CacheGet(cache, ClientKey(q), now) # NoVal
       THEN /\ qout' = [qout EXCEPT ![v] = Live(CacheGet(cache, ClientKey(q), now))]
            /\ qpc' = [qpc EXCEPT ![v] = "done"]
       ELSE /\ qpc' = [qpc EXCEPT ![v] = "fetch"]
            /\ UNCHANGED qout
    /\ UNCHANGED <<secret, storeVars, seqVars, concVars, tableVars, apiUp, now, cache,
                   qval, qfailed, qexc>>

\* The requests to the store (supabase.py lines 129-131, 261-263, 378-380):
\* they fail when the API is down, in one of the ways of StoreFailures, or
\* when the detail is not found; the client lets out what ClientWraps gives.
QFetch(v) ==
    /\ qpc[v] = "fetch"
    /\ qfailed' = [qfailed EXCEPT ![v] = ~apiUp]
    /\ LET val == Compute(qry[v], sbEmails, sbEvents, now)
       IN  IF apiUp /\ val # NoVal
           THEN /\ qval' = [qval EXCEPT ![v] = val]
                /\ qpc' = [qpc EXCEPT ![v] = "set"]
                /\ UNCHANGED qexc
           ELSE /\ qpc' = [qpc EXCEPT ![v] = "except"]
                /\ UNCHANGED qval
                /\ \E exc \in (IF apiUp THEN {"SupabaseAPIError"} ELSE StoreFailures) :
                       qexc' = [qexc EXCEPT ![v] = Raised(exc, ClientWraps(exc))]
    /\ UNCHANGED <<secret, storeVars, seqVars, concVars, tableVars, apiUp, now, cache,
                   qry, qout, qprior>>

\* cache.set and the return to the view (supabase.py lines 132-134; views.py
\* lines 36-39).
QSet(v) ==
    /\ qpc[v] = "set"
    /\ cache' = CacheSet(cache, ClientKey(qry[v]), qval[v], now)
    /\ qout' = [qout EXCEPT ![v] = Live(qval[v])]
    /\ qpc' = [qpc EXCEPT ![v] = "done"]
    /\ UNCHANGED <<secret, storeVars, seqVars, concVars, tableVars, apiUp, now,
                   qry, qval, qprior, qfailed, qexc>>

QExceptRefreshesEntry(v) ==
    /\ qpc[v] = "except"
    /\ qout' = [qout EXCEPT ![v] = IF ViewCatches(qexc[v].surfaced)
                                   THEN Fallback(qry[v], cache, now)
                                   ELSE Propagated(qexc[v].surfaced)]
    /\ cache' = IF ViewCatches(qexc[v].surfaced)
                    /\ TruthyVal(CacheGet(cache, ViewKey(qry[v]), now))
                 THEN CacheSet(cache, ViewKey(qry[v]), CacheGet(cache, ViewKey(qry[v]), now), now)
                 ELSE cache
    /\ qpc' = [qpc EXCEPT ![v] = "done"]
    /\ UNCHANGED <<secret, storeVars, seqVars, concVars, tableVars, apiUp, now,
                   qry, qval, qprior, qfailed, qexc>>

\* SupabaseAPIError reaches the view (supabase.py lines 135-137; views.py
\* lines 40-59).
QExcept(v) ==
    /\ qpc[v] = "except"
    /\ qout' = [qout EXCEPT ![v] = IF ViewCatches(qexc[v].surfaced)
                                   THEN Fallback(qry[v], cache, now)
                                   ELSE Propagated(qexc[v].surfaced)]
    /\ qpc' = [qpc EXCEPT ![v] = "done"]
    /\ UNCHANGED <<secret, storeVars, seqVars, concVars, tableVars, apiUp, now, cache,
                   qry, qval, qprior, qfailed, qexc>>

\* Time passes.
Tick ==
    /\ now < MaxTime
    /\ now' = now + 1
    /\ UNCHANGED <<secret, storeVars, seqVars, concVars, tableVars, apiUp, cache,
                   qpc, qry, qval, qout, qprior, qfailed, qexc>>

\* The Supabase API goes down or comes back.
ApiFlip ==
    /\ apiUp' = ~apiUp
    /\ UNCHANGED <<secret, storeVars, seqVars, concVars, tableVars, now, cache,
                   qpc, qry, qval, qout, qprior, qfailed, qexc>>

NextRead ==
    \/ \E v \in QWorkers : \E q \in Queries : QStart(v, q)
    \/ \E v \in QWorkers : QFetch(v)
    \/ \E v \in QWorkers : QSet(v)
    \/ \E v \in QWorkers : QExcept(v)
    \/ Tick
    \/ ApiFlip

SpecRead == InitReadPath /\ [][NextRead]_vars

\* C10 as stated (cache fallback): a query on which the store fails, for a
\* key an earlier successful computation had cached, renders that cached
\* value flagged stale (api_healthy = false); the unavailable state is
\* rendered only when no value was ever cached for the key.
C10_Original ==
    \A v \in QWorkers :
        (qpc[v] = "done" /\ qfailed[v] /\ qprior[v] # NoVal)
        => /\ qout[v].state = "stale"
           /\ qout[v].value = qprior[v]
           /\ qout[v].api_healthy = "false"

\* A view call began in this step / left position p in this step.
Began(v) == qpc[v] = "idle" /\ qpc'[v] # "idle"
Left(v, p) == qpc[v] = p /\ qpc'[v] # p
\* The entry under key k holds a value and has not expired.
HoldsEntry(k) == cache[k].val # NoVal /\ now < cache[k].expires

\* C11 (cache-first policy): a client call first reads the cache under its
\* key; on a hit it returns the cached value and makes no request to the
\* store; on a miss (no entry, or an expired one) it goes to the store, and
\* only a recomputation that succeeded writes the cache: under the same key,
\* with the configured time-to-live, the value it then returns. A failed
\* recomputation writes nothing.
C11_CacheFirst ==
    [][ /\ \A v \in QWorkers :
             /\ Began(v) =>
                  /\ cache' = cache
                  /\ IF HoldsEntry(ClientKey(qry'[v]))
                     THEN /\ qpc'[v] = "done"
                          /\ qout'[v] = Live(cache[ClientKey(qry'[v])].val)
                          /\ qval'[v] = NoVal /\ ~qfailed'[v]
                     ELSE qpc'[v] = "fetch"
             /\ Left(v, "fetch") =>
                  /\ cache' = cache
                  /\ qpc'[v] = (IF qexc'[v] = NoException THEN "set" ELSE "except")
                  /\ qpc'[v] = "set" =>
                        qval'[v] = Compute(qry[v], sbEmails, sbEvents, now)
             /\ Left(v, "set") =>
                  /\ cache' = [cache EXCEPT ![ClientKey(qry[v])] =
                                  [val |-> qval[v], expires |-> now + CacheTimeout]]
                  /\ qout'[v] = Live(qval[v])
             /\ Left(v, "except") => cache' = cache
        /\ cache' # cache => \E v \in QWorkers : Left(v, "set") ]_vars

\* One call missed, recomputed and filled the cache; a tick later a second
\* call for the same key was served that value from the cache without going
\* to the store.
C11_Witness ==
    \E u, v \in QWorkers :
        /\ u # v
        /\ qry[u] = qry[v]
        /\ qpc[u] = "done" /\ qout[u].state = "live" /\ qval[u] # NoVal
        /\ qpc[v] = "done" /\ qout[v].state = "live" /\ qval[v] = NoVal
        /\ qout[v].value = qval[u]
        /\ cache[ClientKey(qry[u])].expires = now + 1

\* The emails a dashboard query for range r selects now, and those of them
\* that have a delivered event.
Selected(r) == { e \in sbEmails : e.sent_at >= now - RangeDelta(r) }
DeliveredOf(r) ==
    { e \in Selected(r) :
        \E ev \in sbEvents : ev.email_id = e.id /\ ev.event_type = "delivered" }

\* C12 (zero-division safety): a dashboard recomputation against a reachable
\* store raises nothing; for a window that selects no email it returns
\* total_sent, delivery_rate, bounce_rate and avg_delivery_time all 0, and
\* when emails are selected but none has a delivered event avg_delivery_time
\* (and delivery_rate) is 0.
C12_ZeroDivisionSafe ==
    [][ \A v \in QWorkers :
          (Left(v, "fetch") /\ qry[v].type = "dashboard" /\ apiUp) =>
             /\ qpc'[v] = "set"
             /\ qexc'[v] = NoException
             /\ qval'[v].stats.total_sent = Cardinality(Selected(qry[v].range))
             /\ Selected(qry[v].range) = {} =>
                   /\ qval'[v].stats.delivery_rate = 0
                   /\ qval'[v].stats.bounce_rate = 0
                   /\ qval'[v].stats.avg_delivery_time = 0
             /\ DeliveredOf(qry[v].range) = {} =>
                   /\ qval'[v].stats.delivery_rate = 0
                   /\ qval'[v].stats.avg_delivery_time = 0 ]_vars

\* One dashboard call computed the stats of a window in which the only email
\* bounced (total 1, average 0); another, made when every email had left the
\* 24h window, computed the all-zero stats.
C12_Witness ==
    \E u, v \in QWorkers :
        /\ sbEmails # {}
        /\ qry[u] = DashboardQuery("7d") /\ qpc[u] = "done" /\ qout[u].state = "live"
        /\ qval[u].stats.total_sent = 1
        /\ qval[u].stats.bounce_rate = 100
        /\ qval[u].stats.avg_delivery_time = 0
        /\ qry[v] = DashboardQuery("24h") /\ qpc[v] = "set"
        /\ qval[v].stats = ZeroStats

\* C18 (views never raise): however the recomputation fails, the client
\* lets out SupabaseAPIError and nothing else, and the view that called it
\* ends with a rendered page (live, stale or unavailable) or, for the
\* detail view, a redirect; no exception leaves the view.
C18_ViewsNeverRaise ==
    \A v \in QWorkers :
        /\ qexc[v] # NoException => qexc[v].surfaced = "SupabaseAPIError"
        /\ qpc[v] = "done" =>
              /\ qout[v].state \in {"live", "stale", "unavailable", "redirect"}
              /\ qexc[v] # NoException =>
                    qout[v].state \in {"stale", "unavailable", "redirect"}
              /\ qout[v].state = "redirect" => qry[v].type = "detail"

\* The store answered with something the code could not read (KeyError inside
\* the recomputation) and the list view rendered the unavailable page;
\* another call's transport failure ended in the detail view's redirect.
C18_Witness ==
    \E u, v \in QWorkers :
        /\ qpc[u] = "done" /\ qry[u].type = "list"
        /\ qexc[u].raised = "KeyError"
        /\ qout[u].state = "unavailable"
        /\ qpc[v] = "done" /\ qry[v].type = "detail"
        /\ qexc[v].raised = "SupabaseAPIError" /\ qfailed[v]
        /\ qout[v].state = "redirect"

\* The client call of view call v returned a result / ended in an error.
Returned(v) == qpc[v] = "done" /\ qexc[v] = NoException
Failed(v)   == qpc[v] = "done" /\ qexc[v] # NoException

DetailNotFound(v) ==
    /\ qpc[v] = "done" /\ qry[v].type = "detail"
    /\ ~qfailed[v] /\ qexc[v] # NoException
    /\ qout[v].state # "stale"
DetailUnreachable(v) ==
    /\ qpc[v] = "done" /\ qry[v].type = "detail"
    /\ qfailed[v]
    /\ qout[v].state # "stale"

\* C21 as stated (NotFound): a detail query for an identity without Email
\* in a reachable store ends in an outcome that differs from the outcome of
\* a detail query made while the store is unreachable and nothing is cached:
\* another exception leaves the client, or the view answers otherwise.
C21_Original ==
    \A u, v \in QWorkers :
        (DetailNotFound(u) /\ DetailUnreachable(v)) =>
            \/ qexc[u].surfaced # qexc[v].surfaced
            \/ qout[u] # qout[v]

(***************************************************************************)
(* SpecStatus: the listing over every set of event kinds of one email      *)
(***************************************************************************)
ReadKinds ==
    {"sent", "delivered", "bounced", "clicked", "opened", "unsubscribed",
     "blocked", "spam", "deferred"}

InitStatus ==
    /\ secret = None
    /\ InitHooks
    /\ sbEmails = { EmailRow("e1", "a@x", "hello", 0) }
    /\ \E ks \in SUBSET ReadKinds : sbEvents = { EventRow("e1", k, 0) : k \in ks }
    /\ InitRead

NextStatus ==
    \/ \E v \in QWorkers : QStart(v, ListQuery("7d", ""))
    \/ \E v \in QWorkers : QFetch(v)
    \/ \E v \in QWorkers : QSet(v)

SpecStatus == InitStatus /\ [][NextStatus]_vars

\* s is the first kind of kinds in the order clicked, opened, delivered,
\* bounced, unsubscribed, and 'sent' when kinds holds none of them.
IsPriorityResult(s, kinds) ==
    LET order == <<"clicked", "opened", "delivered", "bounced", "unsubscribed">>
    IN  \/ \E i \in 1..5 : /\ s = order[i]
                           /\ s \in kinds
                           /\ \A j \in 1..(i - 1) : order[j] \notin kinds
        \/ /\ s = "sent"
           /\ \A i \in 1..5 : order[i] \notin kinds

\* C8 (status priority): every email a listing returns carries the first
\* kind present among its events in the order clicked, opened, delivered,
\* bounced, unsubscribed, and 'sent' when none is (blocked, spam, deferred
\* never count), which is also what the Status Deriver gives; {sent,
\* delivered, opened} gives 'opened', {sent, bounced} 'bounced', {sent,
\* delivered, bounced, clicked} 'clicked'.
C8_StatusPriority ==
    /\ \A v \in QWorkers :
         qout[v].state = "live" =>
            \A r \in qout[v].value.rows :
                /\ IsPriorityResult(r.current_status, EventKinds(sbEvents, r.id))
                /\ r.current_status = DeriveStatus(EventKinds(sbEvents, r.id))
    /\ FetchStatus({"sent", "delivered", "opened"}) = "opened"
    /\ FetchStatus({"sent", "bounced"}) = "bounced"
    /\ FetchStatus({"sent", "delivered", "bounced", "clicked"}) = "clicked"

C8_Witness ==
    \E v \in QWorkers :
        /\ qout[v].state = "live"
        /\ EventKinds(sbEvents, "e1") = {"sent", "delivered", "bounced", "blocked"}
        /\ \E r \in qout[v].value.rows : r.id = "e1" /\ r.current_status = "delivered"

\* The emails a list query q selects now: those sent inside the window
\* that match the search term.
Listed(q) ==
    { e \in sbEmails :
        /\ e.sent_at >= now - RangeDelta(q.range)
        /\ (q.search = "" \/ Contains(e.recipient_email, q.search)
                          \/ Contains(e.subject, q.search)) }
\* All kinds among the events of email id, whatever their timestamps.
LifetimeKinds(id) == { ev.event_type : ev \in { x \in sbEvents : x.email_id = id } }

\* C23 (window and status): a listing returns the emails whose sent_at lies
\* in the window, and the current_status of each is the priority result
\* over all events of that email, those with a timestamp before the window
\* included.
C23_StatusOverLifetime ==
    [][ \A v \in QWorkers :
          (Left(v, "fetch") /\ qry[v].type = "list" /\ apiUp) =>
             /\ qpc'[v] = "set"
             /\ { r.id : r \in qval'[v].rows } = { e.id : e \in Listed(qry[v]) }
             /\ \A r \in qval'[v].rows :
                   IsPriorityResult(r.current_status, LifetimeKinds(r.id)) ]_vars

\* A 24h listing made when e2 had left the window returned e1 alone, with
\* status 'opened' from an event stamped before the window began.
C23_Witness ==
    \E v \in QWorkers :
        /\ qry[v] = ListQuery("24h", "")
        /\ qpc[v] \in {"set", "done"}
        /\ EventRow("e1", "opened", 0) \in sbEvents
        /\ \E e \in sbEmails : e.id = "e2" /\ e.sent_at = 0
        /\ { r.id : r \in qval[v].rows } = {"e1"}
        /\ \A r \in qval[v].rows : r.current_status = "opened" /\ r.sent_at > 0

\* The priority rank of a status: sent < unsubscribed < bounced < delivered
\* < opened < clicked.
Rank(status) ==
    CASE status = "sent"         -> 0
      [] status = "unsubscribed" -> 1
      [] status = "bounced"      -> 2
      [] status = "delivered"    -> 3
      [] status = "opened"       -> 4
      [] status = "clicked"      -> 5
      [] OTHER                   -> -1

\* C24 (status monotonicity): no webhook lowers the rank of an Email's
\* current_status, which is always one of the six ranked statuses; and the
\* status the listing derives never ranks lower for a larger set of events.
C24_StatusMonotone ==
    [][ /\ \A i \in 1..Len(emails) :
             /\ Rank(emails[i].current_status) >= 0
             /\ Rank(emails'[i].current_status) >= Rank(emails[i].current_status)
        /\ hist = <<>> =>
             \A ks \in SUBSET ReadKinds : \A k \in ReadKinds :
                 /\ Rank(FetchStatus(ks)) >= 0
                 /\ Rank(FetchStatus(ks \cup {k})) >= Rank(FetchStatus(ks)) ]_vars

\* The Email was clicked and then a 'hard_bounce' or 'unsubscribe' webhook
\* was accepted and stored: the status is still 'clicked'.
C24_Witness ==
    /\ Len(hist) = 3
    /\ hist[2].body.event = "click"
    /\ hist[3].body.event \in {"hard_bounce", "unsubscribe"}
    /\ resps = <<Ok, Ok, Ok>>
    /\ Len(emails) = 1
    /\ Len(emails[1].events) = 3
    /\ prevEmails[1].current_status = "clicked"
    /\ emails[1].current_status = "clicked"

IdentityOf(row) == <<row.brevo_message_id, row.recipient_email>>
\* Worker w, handling a request, took a step.
Stepped(w) == pc[w] # "idle" /\ pc'[w] # pc[w]

\* C26 (isolation between identities): a step of a request for identity
\* pair A leaves every Email of another pair B as it was (record, sent_at,
\* current_status, events), removes none, and creates Emails for A only,
\* however the requests interleave.
C26_IdentitiesIsolated ==
    [][ \A w \in Workers :
          Stepped(w) =>
             /\ Len(emails') >= Len(emails)
             /\ \A i \in 1..Len(emails) :
                   IdentityOf(emails[i]) # PairOf(w) => emails'[i] = emails[i]
             /\ \A i \in (Len(emails) + 1)..Len(emails') :
                   IdentityOf(emails'[i]) = PairOf(w) ]_vars

\* The Email of one pair holds two events while a request for the other
\* pair, whose Email was just created, is about to add its first event.
C26_Witness ==
    \E i, j \in 1..Len(emails) : \E w \in Workers :
        /\ IdentityOf(emails[i]) # IdentityOf(emails[j])
        /\ Len(emails[i].events) = 2
        /\ emails[i].current_status = "delivered"
        /\ emails[j].events = <<>>
        /\ pc[w] = "add_event" /\ loc[w] = j
        /\ PairOf(w) = IdentityOf(emails[j])

\* C27 (whole cache entries): every change of a cache entry is the write of
\* one view call that recomputed that key without error, and puts there the
\* complete value that call computed from the store at one instant,
\* whatever entry another call had written before (last writer wins); a
\* call whose recomputation failed changes no entry.
C27_CacheEntriesWhole ==
    [][ /\ \A k \in CacheKeys :
             cache'[k] # cache[k] =>
                \E v \in QWorkers :
                    /\ Left(v, "set")
                    /\ ClientKey(qry[v]) = k
                    /\ qexc[v] = NoException
                    /\ cache'[k].val # NoVal
                    /\ \E t \in 0..now :
                          qval[v] = Compute(qry[v], sbEmails, sbEvents, t)
                    /\ \A u \in QWorkers : qexc[u] # NoException => qpc'[u] = qpc[u]
        /\ \A v \in QWorkers :
             Left(v, "set") => cache'[ClientKey(qry[v])].val = qval[v] ]_vars

\* Two calls recomputed the same key at the same time and got different
\* results (the window had moved); both were rendered live, and the cache
\* holds the result of the one that wrote last.
C27_Witness ==
    \E u, v \in QWorkers :
        /\ u # v
        /\ qry[u] = qry[v]
        /\ qpc[u] = "done" /\ qpc[v] = "done"
        /\ qout[u] = Live(qval[u]) /\ qout[v] = Live(qval[v])
        /\ qval[u] # NoVal /\ qval[v] # NoVal
        /\ qval[u] # qval[v]
        /\ cache[ClientKey(qry[v])].val = qval[v]
        /\ cache[ClientKey(qry[v])].expires = now + CacheTimeout

\* C28 (append-only log): no webhook request removes an Email or a Message
\* or changes a Message, and the events an Email holds before a request are
\* the first events it holds after it, unaltered: the log only grows.
C28_AppendOnly ==
    [][ /\ Len(emails') >= Len(emails)
        /\ \A i \in 1..Len(emails) :
             /\ Len(emails'[i].events) >= Len(emails[i].events)
             /\ \A n \in 1..Len(emails[i].events) :
                   emails'[i].events[n] = emails[i].events[n]
        /\ Len(messages') >= Len(messages)
        /\ \A m \in 1..Len(messages) : messages'[m] = messages[m] ]_vars

\* After 'sent', the Email was delivered at T1 and a further 'delivered'
\* webhook stamped T2 arrived: both events are in the log, in that order.
C28_Witness ==
    /\ hist = <<Hook("request", T1), Hook("delivered", T1), Hook("delivered", T2)>>
    /\ resps = <<Ok, Ok, Ok>>
    /\ Len(emails) = 1
    /\ Len(emails[1].events) = 3
    /\ emails[1].events[2] = prevEmails[1].events[2]
    /\ emails[1].events[2].timestamp = T1
    /\ emails[1].events[3].timestamp = T2

\* C29 (what a 'sent' webhook creates): a valid 'sent' webhook for an
\* identity without Email is answered 'ok' and creates one Email for the
\* identity, with sent_at the webhook's ts_event as a UTC instant, status
\* 'sent', and as owning Message the row of the Message table keyed by the
\* payload's subject ('' when the key is absent) and the UTC calendar date
\* of ts_event.
C29_SentCreatesEmail ==
    [][ \A rq \in Requests :
          (/\ Handling(rq)
           /\ PassesBoundary(rq)
           /\ rq.body.event \in {"request", "sent"}
           /\ RowsOf(emails, rq) = {}) =>
             /\ resps'[Len(resps')] = Ok
             /\ Len(emails') = Len(emails) + 1
             /\ LET e == emails'[Len(emails')]
                IN  /\ e.brevo_message_id = rq.body.mid
                    /\ e.recipient_email = rq.body.email
                    /\ e.sent_at = rq.body.ts.v
                    /\ e.current_status = "sent"
                    /\ e.message.subject =
                          (IF rq.body.subject = Absent THEN "" ELSE rq.body.subject)
                    /\ e.message.sent_date * SecondsPerDay <= rq.body.ts.v
                    /\ rq.body.ts.v < (e.message.sent_date + 1) * SecondsPerDay
                    /\ Cardinality(MessagesWith(messages', e.message)) = 1 ]_vars

\* A 'sent' webhook without subject, stamped one second before midnight UTC
\* of day 0, created the Email under the Message ('', day 0).
C29_Witness ==
    /\ Len(hist) = 1
    /\ hist[1].body = NoSubjectBody
    /\ resps = <<Ok>>
    /\ Len(emails) = 1
    /\ emails[1].sent_at = T1
    /\ emails[1].current_status = "sent"
    /\ emails[1].message = [subject |-> "", sent_date |-> 0]
    /\ messages = <<[subject |-> "", sent_date |-> 0]>>

\* C30 (what creates an Email): a request creates an Email exactly when it
\* passes the signature and payload checks, no Email exists for its identity
\* pair, and its event name is 'request' or 'sent' (canonical kind 'sent');
\* it then creates exactly one. A Message is created only by such a request.
C30_CreatedIffSent ==
    [][ \A rq \in Requests :
          Handling(rq) =>
             LET creating == /\ PassesBoundary(rq)
                             /\ RowsOf(emails, rq) = {}
                             /\ rq.body.event \in {"request", "sent"}
             IN  /\ Len(emails') > Len(emails) <=> creating
                 /\ Len(emails') <= Len(emails) + 1
                 /\ Len(messages') > Len(messages) => creating
                 /\ Len(emails') < Len(emails) + 1 => messages' = messages ]_vars

\* A webhook named 'sent' created the Email of (m1, b@x); 'delivered' and
\* 'hard_bounce' webhooks for (m1, a@x), which has no Email, and a further
\* 'request' for (m1, b@x) created nothing.
C30_Witness ==
    /\ Len(hist) = 3
    /\ hist[1].body = RawSentBody
    /\ KindOf(hist[2]) \in {"delivered", "bounced"} /\ hist[2].body.email = "a@x"
    /\ hist[3].body.event = "request" /\ hist[3].body.email = "b@x"
    /\ resps = <<Ok, Ignored, Ok>>
    /\ Len(emails) = 1
    /\ Len(messages) = 1
    /\ KindsOf(emails[1].events) = {"sent"}

(***************************************************************************)
(* SpecEvents: arrival orders and redeliveries                             *)
(***************************************************************************)
\* The two tables after the requests of seq are handled one after the other.
RECURSIVE TableAfter(_, _, _)
TableAfter(msgs, ems, seq) ==
    IF seq = <<>> THEN [messages |-> msgs, emails |-> ems]
    ELSE LET out == Handle(secret, msgs, ems, Head(seq))
         IN  TableAfter(out.messages, out.emails, Tail(seq))

\* The request of hist that created the first Email, and the webhooks that
\* came after it.
Born == CHOOSE i \in 1..Len(hist) :
            /\ TableAfter(<<>>, <<>>, SubSeq(hist, 1, i)).emails # <<>>
            /\ \A j \in 1..(i-1) : TableAfter(<<>>, <<>>, SubSeq(hist, 1, j)).emails = <<>>
Further == { hist[i] : i \in (Born+1)..Len(hist) }
\* Every way the webhooks of set S can arrive in at most n deliveries, each
\* at least once.
Arrivals(S, n) ==
    { s \in UNION { [1..k -> S] : k \in Cardinality(S)..n } :
        { s[i] : i \in DOMAIN s } = S }
\* The two tables once the creating request was handled, and the BrevoEmail
\* table had the further webhooks then arrived as s.
AtBirth == TableAfter(<<>>, <<>>, SubSeq(hist, 1, Born))
Rearranged(born, s) == TableAfter(born.messages, born.emails, s).emails
EventSet(row) == { row.events[n] : n \in 1..Len(row.events) }
KeySet(row) == { <<row.events[n].event_type, row.events[n].timestamp>> :
                   n \in 1..Len(row.events) }

\* C31 as stated (convergence): once the Email exists, the final
\* current_status and the final set of stored Events are the same for every
\* arrival order and every number of redeliveries of the further webhooks.
C31_Original ==
    emails # <<>> =>
        LET born == AtBirth
        IN  \A s \in Arrivals(Further, Len(hist) - Born + 1) :
                LET ems == Rearranged(born, s)
                IN  /\ Len(ems) = Len(emails)
                    /\ \A i \in 1..Len(emails) :
                         /\ ems[i].current_status = emails[i].current_status
                         /\ EventSet(ems[i]) = EventSet(emails[i])

\* The provider name of the first webhook of hist, from the creating one on,
\* with canonical kind k and timestamp t.
FirstNameOf(k, t) ==
    LET same == { j \in Born..Len(hist) :
                    Canonical(hist[j].body.event) = k /\ hist[j].body.ts.v = t }
    IN  hist[CHOOSE j \in same : \A m \in same : j <= m].body.event

\* C31 (amended): once the Email exists, the final current_status and the
\* final set of (kind, timestamp) pairs of the stored Events are the same for
\* every arrival order and every number of redeliveries of the further
\* webhooks: one pair per distinct (canonical kind, timestamp) delivered, the
\* status being the priority result of the kinds. The extra fields of a
\* stored Event are those of the webhook with its pair that arrived first.
C31_Convergence ==
    emails # <<>> =>
        /\ LET born == AtBirth
           IN  \A s \in Arrivals(Further, Len(hist) - Born + 1) :
                   LET ems == Rearranged(born, s)
                   IN  /\ Len(ems) = Len(emails)
                       /\ \A i \in 1..Len(emails) :
                            /\ ems[i].current_status = emails[i].current_status
                            /\ KeySet(ems[i]) = KeySet(emails[i])
                            /\ Len(ems[i].events) = Cardinality(KeySet(emails[i]))
        /\ \A i \in 1..Len(emails) :
            /\ KeySet(emails[i]) =
                  { <<Canonical(hist[j].body.event), hist[j].body.ts.v>> : j \in Born..Len(hist) }
            /\ Len(emails[i].events) = Cardinality(KeySet(emails[i]))
            /\ emails[i].current_status = DeriveStatus(KindsOf(emails[i].events))
            /\ \A n \in 1..Len(emails[i].events) :
                 emails[i].events[n].bounce_type =
                    BounceType(FirstNameOf(emails[i].events[n].event_type,
                                           emails[i].events[n].timestamp))

\* After the Email was created a 'click' and a 'delivered' webhook arrived,
\* in one of the two orders, and both are stored.
C31_Witness ==
    /\ Len(hist) = 3
    /\ resps = <<Ok, Ok, Ok>>
    /\ Len(emails) = 1
    /\ Born = 1
    /\ { hist[2].body.event, hist[3].body.event } = {"click", "delivered"}
    /\ KeySet(emails[1]) = { <<"sent", T1>>, <<"clicked", T1>>, <<"delivered", T1>> }
    /\ emails[1].current_status = "clicked"

\* C32 (a failed query leaves the cache alone): every step of a view call
\* other than the cache.set of a successful recomputation leaves the whole
\* cache as it was, values and expiry times, under every key; a call whose
\* recomputation raised never reaches cache.set and holds no fetched value.
C32_FailedQueryLeavesCache ==
    [][ \A v \in QWorkers :
          /\ (qpc'[v] # qpc[v] /\ ~Left(v, "set")) =>
                \A k \in CacheKeys : cache'[k] = cache[k]
          /\ (Left(v, "fetch") /\ qpc'[v] # "set") =>
                /\ qexc'[v] # NoException
                /\ qpc'[v] = "except"
          /\ qexc'[v] # NoException =>
                /\ ~Left(v, "set")
                /\ qpc'[v] \in {"except", "done"}
                /\ qval'[v] = NoVal ]_vars

\* A call's recomputation failed while another call had filled its key a
\* tick before: the view served that entry as stale, and the entry is still
\* there with the expiry time it was written with.
C32_Witness ==
    \E u, v \in QWorkers :
        /\ u # v
        /\ qry[u] = qry[v]
        /\ qpc[v] = "done" /\ qexc[v] # NoException /\ qfailed[v]
        /\ qout[v].state = "stale"
        /\ qpc[u] = "done" /\ qval[u] # NoVal
        /\ cache[ClientKey(qry[v])] = Entry(qval[u], now - 1 + CacheTimeout)
        /\ now >= 1

(***************************************************************************)
(* SpecStats: the dashboard over two emails with every set of delivered    *)
(* and bounced events                                                      *)
(***************************************************************************)
\* Rows of email_events: up to two delivered and two bounced events for e1,
\* one of each for e2.
StatsEvents ==
    { EventRow("e1", "delivered", 1), EventRow("e1", "delivered", 2),
      EventRow("e1", "bounced", 1), EventRow("e1", "bounced", 2),
      EventRow("e2", "delivered", 1), EventRow("e2", "bounced", 1) }

InitStats ==
    /\ secret = None
    /\ InitHooks
    /\ sbEmails = { EmailRow("e1", "a@x", "hello", 0), EmailRow("e2", "b@x", "hello", 0) }
    /\ \E evs \in SUBSET StatsEvents :
          sbEvents = evs \cup { EventRow("e1", "sent", 0), EventRow("e2", "sent", 0) }
    /\ InitRead

NextStats ==
    \/ \E v \in QWorkers : \E r \in {"7d", "24h"} : QStart(v, DashboardQuery(r))
    \/ \E v \in QWorkers : QFetch(v)
    \/ \E v \in QWorkers : QSet(v)
    \/ Tick

SpecStats == InitStats /\ [][NextStats]_vars

\* The emails a dashboard query for range r selects now that have a bounced
\* event.
BouncedOf(r) ==
    { e \in Selected(r) :
        \E ev \in sbEvents : ev.email_id = e.id /\ ev.event_type = "bounced" }

\* C33 (each email counted once): a dashboard recomputation counts as
\* delivered the selected emails that have at least one delivered event and
\* as bounced those that have at least one bounced event, each once, so both
\* counts are at most total_sent and both rates lie between 0 and 100; an
\* email with a delivered and a bounced event counts toward both rates.
C33_CountedOnce ==
    [][ \A v \in QWorkers :
          (Left(v, "fetch") /\ qry[v].type = "dashboard" /\ Selected(qry[v].range) # {}) =>
             LET total == Cardinality(Selected(qry[v].range))
                 st    == qval'[v].stats
             IN  /\ st.total_sent = total
                 /\ st.delivery_rate = (Cardinality(DeliveredOf(qry[v].range)) * 100) \div total
                 /\ st.bounce_rate = (Cardinality(BouncedOf(qry[v].range)) * 100) \div total
                 /\ st.delivery_rate \in 0..100
                 /\ st.bounce_rate \in 0..100
                 /\ (DeliveredOf(qry[v].range) \cap BouncedOf(qry[v].range) # {}) =>
                       (st.delivery_rate > 0 /\ st.bounce_rate > 0) ]_vars

\* Of two emails one has two delivered events and two bounced events, the
\* other none: the dashboard gives total 2 and both rates 50.
C33_Witness ==
    \E v \in QWorkers :
        /\ sbEvents \cap StatsEvents =
              { EventRow("e1", "delivered", 1), EventRow("e1", "delivered", 2),
                EventRow("e1", "bounced", 1), EventRow("e1", "bounced", 2) }
        /\ qry[v] = DashboardQuery("7d") /\ qpc[v] = "done" /\ qout[v].state = "live"
        /\ qval[v].stats.total_sent = 2
        /\ qval[v].stats.delivery_rate = 50
        /\ qval[v].stats.bounce_rate = 50

(***************************************************************************)
(* SpecKeys: queries whose parameters come from the URL as typed           *)
(***************************************************************************)
NextKeys ==
    \/ \E v \in QWorkers : \E q \in KeyQueries : QStart(v, q)
    \/ \E v \in QWorkers : QFetch(v)
    \/ \E v \in QWorkers : QSet(v)
    \/ \E v \in QWorkers : QExcept(v)
    \/ Tick
    \/ ApiFlip

SpecKeys == InitReadPath /\ [][NextKeys]_vars

\* Call v was answered from the cache: rendered live without a fetch.
ServedFromCache(v) ==
    qpc[v] = "done" /\ qout[v].state = "live" /\ qval[v] = NoVal

\* C34 as stated (cache keys keep queries apart): a value served from the
\* cache was computed by a call with the same query type and the same
\* (window, search term) pair or email identity, and two queries that differ
\* in any of these have different cache keys.
C34_Original ==
    \A v \in QWorkers :
        ServedFromCache(v) =>
            \E u \in QWorkers :
                /\ u # v
                /\ qval[u] = qout[v].value
                /\ qry[u] = qry[v]
                /\ \A w \in QWorkers :
                      (qry[w] # NoQuery /\ qry[w] # qry[v]) =>
                          ClientKey(qry[w]) # ClientKey(qry[v])

\* The payload is a JSON object that holds the four required keys, the three
\* names as strings and ts_event as a number.
AllPresentTyped(b) ==
    /\ b.json = "object"
    /\ b.event # Absent /\ b.mid # Absent /\ b.email # Absent
    /\ b.ts.tag \in {"int", "yearrange", "overflow"}

\* C35 as stated (missing fields): a request is answered 'Missing required
\* fields' only when one of event, message-id, email, ts_event is absent from
\* the JSON object; a payload that holds all four with values of the required
\* types, ts_event = 0 included, is not answered so.
C35_Original ==
    Handled =>
        /\ LastResp = MissingFields =>
              \/ LastBody.event = Absent
              \/ LastBody.mid = Absent
              \/ LastBody.email = Absent
              \/ LastBody.ts.tag = "absent"
        /\ AllPresentTyped(LastBody) => LastResp # MissingFields

====
